---- MODULE Spec2Model ----
(***************************************************************************)
(* talk-sync-world: the chat schema, its row-level-security policies as    *)
(* the three migrations leave them, and the client components that issue   *)
(* statements against them.                                                *)
(*                                                                         *)
(* The store is PostgreSQL.  Its row-level-security rules are modelled as  *)
(* PostgreSQL documents them (CREATE POLICY, "Policies Applied by Command  *)
(* Type"):                                                                 *)
(*  - permissive policies of one command are OR-ed; a policy applies to a  *)
(*    role only if it was created for PUBLIC or TO that role; with no      *)
(*    applicable policy the default is deny;                               *)
(*  - a sub-select inside a policy expression is itself filtered by the    *)
(*    SELECT policies of the table it reads, unless it runs inside a       *)
(*    SECURITY DEFINER function;                                           *)
(*  - when expanding the policies of a relation would expand that relation *)
(*    again, the statement fails ("infinite recursion detected in policy   *)
(*    for relation");                                                      *)
(*  - a statement that reads columns of its target (WHERE, RETURNING) also *)
(*    applies the SELECT policies, to the existing row of an UPDATE and to *)
(*    the new row of an INSERT or UPDATE;                                  *)
(*  - a comparison with NULL is not true, and a row passes a policy only   *)
(*    when the expression is true.                                         *)
(***************************************************************************)
EXTENDS Integers, FiniteSets, Sequences, TLC

\* ------------------------------------------------------------------ bounds
MaxConvs == 2
MaxMsgs == 1
MaxClock == 4

\* messages posted, and rows a message list holds, where the list is followed
MaxPosted == 2

MaxShown == 3

\* ------------------------------------------------------------ value spaces
Users == {"A", "B", "X"}
Anon == "anon"
NULL == "null"
Principals == Users \cup {Anon}
ConvIds == 1..MaxConvs
MsgIds == 1..MaxPosted
\* the principals with the chat page open in a browser
Clients == {"A"}

\* the two users that have the chat page open; the browser of the second
\* is followed where two runs of the dialog race
Pair == {"A", "B"}

\* useState<string | null>(null): no conversation selected
NoConversation == 0

Tables == {"profiles", "conversations", "conversation_participants", "messages"}

\* applied: how many migrations have run; profiles, conversations,
\* participants, messages: the rows of the four tables; clock: the time of
\* the latest statement that took now().  A statement the store refuses
\* leaves every variable as it was.
VARIABLES applied, profiles, conversations, participants, messages, clock,
          selected, list, dlg, inp, shown, pending, channel

vars == <<applied, profiles, conversations, participants, messages, clock,
          selected, list, dlg, inp, shown, pending, channel>>

\* what the database holds, and what the signed-in browsers hold
database == <<applied, profiles, conversations, participants, messages, clock>>

client == <<selected, list, dlg, inp>>

\* what the message list of each browser holds, the fetches it has in
\* flight, and its realtime channel
view == <<shown, pending, channel>>

browser == <<client, view>>

store == <<profiles, conversations, participants, messages>>

\* auth.uid(): the acting principal, NULL for an unauthenticated caller
uid(P) == IF P = Anon THEN NULL ELSE P

\* the database role a request runs as
RoleOf(P) == IF P = Anon THEN "anon" ELSE "authenticated"

\* an equality under which NULL equals NULL
SqlEqNullsEqual(a, b) == a = b

\* SQL equality used as a policy condition: NULL = x is not true
SqlEq(a, b) == a # NULL /\ b # NULL /\ a = b

\* ------------------------------------------------------ the policy catalog
\* A policy: its name and table, the command it is FOR, the role it is TO,
\* the shape of its expression (test) and how the expression reaches other
\* tables (via): "none" no sub-select, "rls" a plain sub-select, "definer" a
\* SECURITY DEFINER helper function.
Pol(n, t, c, r, x, v) == [name |-> n, table |-> t, cmd |-> c, roles |-> r, test |-> x, via |-> v]

Create(p) == [op |-> "create", name |-> p.name, table |-> p.table, policy |-> p]

Drop(n, t) == [op |-> "drop", name |-> n, table |-> t, policy |-> NULL]

\* the initial schema migration: CREATE POLICY statements
InitialSchema ==
  << Create(Pol("Users can view all profiles", "profiles", "SELECT", "public", "true", "none")),
     Create(Pol("Users can update their own profile", "profiles", "UPDATE", "public", "owner", "none")),
     Create(Pol("Users can insert their own profile", "profiles", "INSERT", "public", "owner", "none")),
     Create(Pol("Users can view conversations they participate in", "conversations", "SELECT", "public", "member", "rls")),
     Create(Pol("Users can create conversations", "conversations", "INSERT", "public", "owner", "none")),
     Create(Pol("Users can view participants of their conversations", "conversation_participants", "SELECT", "public", "member", "rls")),
     Create(Pol("Users can add participants to conversations they created", "conversation_participants", "INSERT", "public", "owner_or_creator", "rls")),
     Create(Pol("Users can view messages from their conversations", "messages", "SELECT", "public", "member", "rls")),
     Create(Pol("Users can send messages to their conversations", "messages", "INSERT", "public", "owner_and_member", "rls")),
     Create(Pol("Users can update their own messages", "messages", "UPDATE", "public", "owner", "none")) >>

\* 20250814195648_raspy_spark.sql
RaspySpark ==
  << Drop("Users can view conversations they participate in", "conversations"),
     Drop("Users can view participants of their conversations", "conversation_participants"),
     Drop("Users can view messages from their conversations", "messages"),
     Drop("Users can add participants to conversations they created", "conversation_participants"),
     Create(Pol("Users can view conversations they participate in", "conversations", "SELECT", "public", "member", "definer")),
     Create(Pol("Users can view participants of their conversations", "conversation_participants", "SELECT", "public", "member", "definer")),
     Create(Pol("Users can add participants to conversations they created", "conversation_participants", "INSERT", "public", "owner_or_creator", "definer")),
     Create(Pol("Users can view messages from their conversations", "messages", "SELECT", "public", "member", "definer")) >>

\* 20250814200318_graceful_king.sql
GracefulKing ==
  << Drop("Users can view participants of their conversations", "conversation_participants"),
     Drop("Users can add participants to conversations they created", "conversation_participants"),
     Drop("Users can view conversations they participate in", "conversations"),
     Drop("Users can send messages to their conversations", "messages"),
     Drop("Users can view messages from their conversations", "messages"),
     Create(Pol("Users can view participants of conversations they join", "conversation_participants", "SELECT", "authenticated", "member", "rls")),
     Create(Pol("Users can join conversations or add others to their own conversations", "conversation_participants", "INSERT", "authenticated", "owner_or_creator", "rls")),
     Create(Pol("Users can view their conversations", "conversations", "SELECT", "authenticated", "member", "rls")),
     Create(Pol("Users can view messages in their conversations", "messages", "SELECT", "authenticated", "member", "rls")),
     Create(Pol("Users can send messages to conversations they participate in", "messages", "INSERT", "authenticated", "owner_and_member", "rls")) >>

\* the migrations in the order of their file names
Migrations == << InitialSchema, RaspySpark, GracefulKing >>

NumMigrations == Len(Migrations)

\* one CREATE POLICY / DROP POLICY IF EXISTS statement applied to a catalog
ApplyStmt(cat, s) ==
  IF s.op = "create" THEN cat \cup {s.policy}
  ELSE {p \in cat : ~(p.name = s.name /\ p.table = s.table)}

RECURSIVE ApplyStmts(_, _, _)
ApplyStmts(cat, stmts, i) ==
  IF i > Len(stmts) THEN cat ELSE ApplyStmts(ApplyStmt(cat, stmts[i]), stmts, i + 1)

\* the policies in force once the first n migrations have run
RECURSIVE Catalog(_)
Catalog(n) == IF n = 0 THEN {} ELSE ApplyStmts(Catalog(n - 1), Migrations[n], 1)

Commands == {"SELECT", "INSERT", "UPDATE"}

Roles == {"anon", "authenticated"}

\* the policies of one table and command that apply to a role, after the
\* first n migrations
PolicyIndex ==
  [n \in 0..NumMigrations |->
    [t \in Tables |-> [c \in Commands |-> [role \in Roles |->
      {p \in Catalog(n) : p.table = t /\ p.cmd = c /\ (p.roles = "public" \/ p.roles = role)}]]]]

PoliciesFor(n, t, c, role) == PolicyIndex[n][t][c][role]

\* the table a policy's sub-select reads
RefTable(p) ==
  IF p.test \in {"member", "owner_and_member"} THEN "conversation_participants"
  ELSE IF p.test = "owner_or_creator" THEN "conversations"
  ELSE NULL

\* the tables a policy reads through a plain sub-select (filtered by their
\* own SELECT policies); a SECURITY DEFINER helper reads as the table owner
SubLinks(p) == IF p.via = "rls" THEN {RefTable(p)} ELSE {}

\* Expanding the policies of table t for the commands cmds: TRUE when the
\* expansion comes back to a relation whose policies are being expanded.
RECURSIVE Recursion(_, _, _, _, _)
Recursion(n, t, cmds, role, active) ==
  LET pols == UNION {PoliciesFor(n, t, c, role) : c \in cmds}
      subs == UNION {SubLinks(p) : p \in pols}
  IN IF subs = {} THEN FALSE
     ELSE IF t \in active THEN TRUE
     ELSE \E s \in subs : Recursion(n, s, {"SELECT"}, role, active \cup {t})

\* the statements the clients issue, by the policies they bring in
Statements ==
  {{"SELECT"}, {"INSERT"}, {"INSERT", "SELECT"}, {"UPDATE"}, {"UPDATE", "SELECT"}}

RecursionIndex ==
  [n \in 0..NumMigrations |->
    [t \in Tables |-> [cmds \in Statements |-> [role \in Roles |->
      Recursion(n, t, cmds, role, {})]]]]

\* ------------------------------------------------- evaluating a policy
\* A row is judged by its conversation (conv) and the principal column the
\* policies compare with auth.uid() (owner): profiles.id,
\* conversations.created_by, conversation_participants.user_id,
\* messages.sender_id.
RECURSIVE SelectOK(_, _, _, _, _)
RECURSIVE Passes(_, _, _, _, _)

\* "a conversation_participants row (conv, auth.uid()) exists": through
\* get_user_conversation_ids() every row counts, through a plain sub-select
\* only the rows the caller may read
Member(n, P, conv, via) ==
  \E r \in participants :
     /\ r.conversation_id = conv
     /\ SqlEq(r.user_id, uid(P))
     /\ (via = "definer" \/ SelectOK(n, "conversation_participants", P, r.conversation_id, r.user_id))

\* "conversation conv was created by auth.uid()": through
\* get_created_conversation_ids() or through a plain sub-select
CreatorOf(n, P, conv, via) ==
  \E c \in conversations :
     /\ c.id = conv
     /\ SqlEq(c.created_by, uid(P))
     /\ (via = "definer" \/ SelectOK(n, "conversations", P, c.id, c.created_by))

Passes(n, p, P, conv, owner) ==
  CASE p.test = "true" -> TRUE
    [] p.test = "owner" -> SqlEq(uid(P), owner)
    [] p.test = "member" -> Member(n, P, conv, p.via)
    [] p.test = "owner_or_creator" -> SqlEq(owner, uid(P)) \/ CreatorOf(n, P, conv, p.via)
    [] p.test = "owner_and_member" -> SqlEq(uid(P), owner) /\ Member(n, P, conv, p.via)

\* some SELECT policy of table t lets P see the row
SelectOK(n, t, P, conv, owner) ==
  \E p \in PoliciesFor(n, t, "SELECT", RoleOf(P)) : Passes(n, p, P, conv, owner)

\* some policy FOR cmd of table t accepts the row (USING, and WITH CHECK
\* where none is written: the USING expression)
CmdOK(t, cmd, P, conv, owner) ==
  \E p \in PoliciesFor(applied, t, cmd, RoleOf(P)) : Passes(applied, p, P, conv, owner)

\* the statement cannot be planned: its policies recurse
Fails(t, cmds, P) == RecursionIndex[applied][t][cmds][RoleOf(P)]

\* SELECT: an error, or the rows the SELECT policies let through
ReadFails(P, t) == Fails(t, {"SELECT"}, P)

CanRead(P, t, conv, owner) == ~ReadFails(P, t) /\ SelectOK(applied, t, P, conv, owner)

\* INSERT of one row, with RETURNING (.select()) or without
InsertOutcome(P, t, conv, owner, returning) ==
  LET cmds == IF returning THEN {"INSERT", "SELECT"} ELSE {"INSERT"}
  IN IF Fails(t, cmds, P) THEN "error"
     ELSE IF ~CmdOK(t, "INSERT", P, conv, owner) THEN "denied"
     ELSE IF returning /\ ~SelectOK(applied, t, P, conv, owner) THEN "denied"
     ELSE "ok"

\* UPDATE: the existing rows the statement may touch
Updatable(P, t, conv, owner, reads) ==
  /\ CmdOK(t, "UPDATE", P, conv, owner)
  /\ (reads => SelectOK(applied, t, P, conv, owner))

\* ------------------------------------------------------------- the store
\* the e-mail address each principal signs up with, as its parts
Email(u) ==
  CASE u = "A" -> <<"alice", "@", "example.com">>
    [] u = "B" -> <<"bob", "@", "example.com">>
    [] u = "X" -> <<"alice", "@", "other.org">>

\* raw_user_meta_data a sign-up may carry
Metas ==
  << [username |-> NULL, display_name |-> NULL],
     [username |-> <<"xavier">>, display_name |-> NULL],
     [username |-> NULL, display_name |-> <<"Al">>] >>

\* split_part(email, '@', 1): the part before the first '@'
RECURSIVE split_part(_, _)
split_part(e, i) ==
  IF i > Len(e) \/ e[i] = "@" THEN <<>> ELSE <<e[i]>> \o split_part(e, i + 1)

\* (a COALESCE that answers its last argument)
COALESCELast(a, b) == b

COALESCE(a, b) == IF a # NULL THEN a ELSE b

\* the principals that have signed up (profiles.id references auth.users)
SignedUp == {p.id : p \in profiles}

Callers == SignedUp \cup {Anon}

\* gen_random_uuid(): an id no row of the table has
FreshConv == CHOOSE i \in ConvIds : i \notin {c.id : c \in conversations}

FreshMsg == CHOOSE i \in MsgIds : i \notin {m.id : m \in messages}

\* on_auth_user_created: a new principal makes handle_new_user insert its
\* profile
handle_new_user(u, meta) ==
  [id |-> u,
   username |-> COALESCE(meta.username, split_part(Email(u), 1)),
   display_name |-> COALESCE(meta.display_name, split_part(Email(u), 1)),
   status |-> "online"]

\* INSERT INTO auth.users of a new principal: the trigger runs in the same
\* transaction, and a username some profile has (UNIQUE) aborts it
SignUpOutcome(u, meta) ==
  IF \E p \in profiles : p.username = handle_new_user(u, meta).username
  THEN "conflict" ELSE "ok"

ProfilesAfterSignUp(u, meta) ==
  IF SignUpOutcome(u, meta) = "ok"
  THEN profiles \cup {handle_new_user(u, meta)}
  ELSE profiles

on_auth_user_created(u, meta) ==
  /\ u \notin SignedUp
  /\ profiles' = ProfilesAfterSignUp(u, meta)
  /\ UNCHANGED <<applied, conversations, participants, messages, clock>>

\* now(): every statement runs later than the ones before it
now == clock + 1

\* The initial schema is in place and three principals have signed up.
Init ==
  /\ applied = 1
  /\ profiles = { handle_new_user("A", [username |-> NULL, display_name |-> NULL]),
                  handle_new_user("B", [username |-> NULL, display_name |-> NULL]),
                  handle_new_user("X", [username |-> <<"xavier">>, display_name |-> NULL]) }
  /\ conversations = {}
  /\ participants = {}
  /\ messages = {}
  /\ clock = 0
  /\ selected = [u \in Pair |-> NoConversation]
  /\ list = [u \in Pair |-> [loading |-> TRUE, conversations |-> <<>>]]
  /\ dlg = [u \in Pair |-> [pc |-> "idle", open |-> FALSE, creating |-> FALSE,
                                otherUserId |-> NULL, conversation |-> NoConversation,
                                toast |-> NULL]]
  /\ inp = [u \in Pair |-> [pc |-> "idle", message |-> <<>>, sending |-> FALSE,
                                conversationId |-> NoConversation, toast |-> NULL]]
  /\ shown = [u \in Pair |-> [messages |-> <<>>, loading |-> TRUE]]
  /\ pending = [u \in Pair |-> {}]
  /\ channel = [u \in Pair |-> [conversationId |-> NoConversation, events |-> <<>>]]

\* The initial schema is in place and nobody has signed up.
InitSignUp ==
  /\ applied = 1
  /\ profiles = {}
  /\ conversations = {}
  /\ participants = {}
  /\ messages = {}
  /\ clock = 0
  /\ selected = [u \in Pair |-> NoConversation]
  /\ list = [u \in Pair |-> [loading |-> TRUE, conversations |-> <<>>]]
  /\ dlg = [u \in Pair |-> [pc |-> "idle", open |-> FALSE, creating |-> FALSE,
                                otherUserId |-> NULL, conversation |-> NoConversation,
                                toast |-> NULL]]
  /\ inp = [u \in Pair |-> [pc |-> "idle", message |-> <<>>, sending |-> FALSE,
                                conversationId |-> NoConversation, toast |-> NULL]]
  /\ shown = [u \in Pair |-> [messages |-> <<>>, loading |-> TRUE]]
  /\ pending = [u \in Pair |-> {}]
  /\ channel = [u \in Pair |-> [conversationId |-> NoConversation, events |-> <<>>]]

\* the next migration file is applied
ApplyMigration ==
  /\ applied < NumMigrations
  /\ applied' = applied + 1
  /\ UNCHANGED <<store, clock>>

\* INSERT INTO profiles (id, username) by a caller
InsertProfileOutcome(P, id, name) ==
  LET rls == InsertOutcome(P, "profiles", 0, id, FALSE)
  IN IF rls # "ok" THEN rls
     ELSE IF id \in SignedUp \/ (\E p \in profiles : p.username = name) THEN "invalid"
     ELSE "ok"

ProfilesAfterInsert(P, id, name) ==
  IF InsertProfileOutcome(P, id, name) = "ok"
  THEN profiles \cup {[id |-> id, username |-> name, display_name |-> NULL, status |-> "online"]}
  ELSE profiles

InsertProfile(P, id, name) ==
  /\ profiles' = ProfilesAfterInsert(P, id, name)
  /\ UNCHANGED <<applied, conversations, participants, messages, clock>>

\* UPDATE profiles SET status = s WHERE id = id
UpdateProfileRows(P, id) ==
  {p \in profiles : p.id = id /\ Updatable(P, "profiles", 0, p.id, TRUE)}

UpdateProfileOutcome(P, id) ==
  IF Fails("profiles", {"UPDATE", "SELECT"}, P) THEN "error"
  ELSE IF UpdateProfileRows(P, id) = {} THEN "norows" ELSE "ok"

ProfilesAfterUpdate(P, id, s) ==
  IF UpdateProfileOutcome(P, id) = "ok"
  THEN (profiles \ UpdateProfileRows(P, id)) \cup {[p EXCEPT !.status = s] : p \in UpdateProfileRows(P, id)}
  ELSE profiles

UpdateProfile(P, id, s) ==
  /\ profiles' = ProfilesAfterUpdate(P, id, s)
  /\ UNCHANGED <<applied, conversations, participants, messages, clock>>

\* INSERT INTO conversations (type, created_by), with or without RETURNING
InsertConversationOutcome(P, creator, returning) ==
  LET rls == InsertOutcome(P, "conversations", FreshConv, creator, returning)
  IN IF rls # "ok" THEN rls
     ELSE IF creator # NULL /\ creator \notin SignedUp THEN "invalid"
     ELSE "ok"

NewConversation(creator, type) ==
  [id |-> FreshConv, type |-> type, created_by |-> creator, updated_at |-> now]

ConversationsAfterInsert(P, creator, type, returning) ==
  IF InsertConversationOutcome(P, creator, returning) = "ok"
  THEN conversations \cup {NewConversation(creator, type)}
  ELSE conversations

InsertConversation(P, creator, type) ==
  /\ Cardinality(conversations) < MaxConvs
  /\ clock < MaxClock
  /\ conversations' = ConversationsAfterInsert(P, creator, type, FALSE)
  /\ clock' = IF InsertConversationOutcome(P, creator, FALSE) = "ok" THEN now ELSE clock
  /\ UNCHANGED <<applied, profiles, participants, messages>>

\* update_conversations_updated_at: BEFORE UPDATE, NEW.updated_at = now()
update_updated_at_column(row) == [row EXCEPT !.updated_at = now]

\* UPDATE conversations SET updated_at = ... WHERE id = c
UpdateConversationRows(P, c) ==
  {r \in conversations : r.id = c /\ Updatable(P, "conversations", r.id, r.created_by, TRUE)}

UpdateConversationOutcome(P, c) ==
  IF Fails("conversations", {"UPDATE", "SELECT"}, P) THEN "error"
  ELSE IF UpdateConversationRows(P, c) = {} THEN "norows" ELSE "ok"

ConversationsAfterUpdate(P, c) ==
  IF UpdateConversationOutcome(P, c) = "ok"
  THEN (conversations \ UpdateConversationRows(P, c))
         \cup {update_updated_at_column(r) : r \in UpdateConversationRows(P, c)}
  ELSE conversations

UpdateConversation(P, c) ==
  /\ clock < MaxClock
  /\ conversations' = ConversationsAfterUpdate(P, c)
  /\ clock' = IF UpdateConversationOutcome(P, c) = "ok" THEN now ELSE clock
  /\ UNCHANGED <<applied, profiles, participants, messages>>

\* INSERT INTO conversation_participants VALUES rows[1], rows[2], ... as one
\* statement: each row is checked against its WITH CHECK before it is
\* inserted, the statement is all-or-nothing, and the sub-selects of the
\* checks do not see the rows the statement itself has inserted
ParticipantRow(c, u) == [conversation_id |-> c, user_id |-> u]

RowDenied(P, r) == ~CmdOK("conversation_participants", "INSERT", P, r.conversation_id, r.user_id)

RowDuplicate(rows, i) ==
  \/ rows[i] \in participants
  \/ \E j \in 1..(i - 1) : rows[j] = rows[i]

RowDangling(r) ==
  \/ r.conversation_id \notin {c.id : c \in conversations}
  \/ r.user_id \notin SignedUp

InsertParticipantsOutcome(P, rows) ==
  LET bad == {i \in 1..Len(rows) : RowDenied(P, rows[i]) \/ RowDuplicate(rows, i)}
      first == CHOOSE i \in bad : \A j \in bad : i <= j
  IN IF Fails("conversation_participants", {"INSERT"}, P) THEN "error"
     ELSE IF bad # {} THEN (IF RowDenied(P, rows[first]) THEN "denied" ELSE "invalid")
     ELSE IF \E i \in 1..Len(rows) : RowDangling(rows[i]) THEN "invalid"
     ELSE "ok"

ParticipantsAfterInsert(P, rows) ==
  IF InsertParticipantsOutcome(P, rows) = "ok"
  THEN participants \cup {rows[i] : i \in 1..Len(rows)}
  ELSE participants

InsertParticipant(P, c, u) ==
  /\ participants' = ParticipantsAfterInsert(P, <<ParticipantRow(c, u)>>)
  /\ UNCHANGED <<applied, profiles, conversations, messages, clock>>

\* INSERT INTO messages (content, conversation_id, sender_id, type)
NewMessage(c, sender, content) ==
  [id |-> FreshMsg, conversation_id |-> c, sender_id |-> sender, content |-> content,
   type |-> "text", created_at |-> now, edited_at |-> NULL, is_deleted |-> FALSE]

InsertMessageOutcome(P, c, sender) ==
  LET rls == InsertOutcome(P, "messages", c, sender, FALSE)
  IN IF rls # "ok" THEN rls
     ELSE IF c \notin {r.id : r \in conversations} \/ sender \notin SignedUp THEN "invalid"
     ELSE "ok"

MessagesAfterInsert(P, c, sender, content) ==
  IF InsertMessageOutcome(P, c, sender) = "ok"
  THEN messages \cup {NewMessage(c, sender, content)}
  ELSE messages

InsertMessageStmt(P, c, sender, content) ==
  /\ clock < MaxClock
  /\ messages' = MessagesAfterInsert(P, c, sender, content)
  /\ clock' = IF InsertMessageOutcome(P, c, sender) = "ok" THEN now ELSE clock
  /\ UNCHANGED <<applied, profiles, conversations, participants>>

InsertMessage(P, c, sender, content) ==
  /\ Cardinality(messages) < MaxMsgs
  /\ InsertMessageStmt(P, c, sender, content)

\* UPDATE messages SET col = val [WHERE id = target]; target 0: no filter.
\* A filter reads a column of the table, so the SELECT policies apply too.
\* (a SET is_deleted that toggles the flag)
SetColumnFlip(m, col, val) ==
  CASE col = "conversation_id" -> [m EXCEPT !.conversation_id = val]
    [] col = "is_deleted" -> [m EXCEPT !.is_deleted = ~m.is_deleted]

SetColumn(m, col, val) ==
  CASE col = "conversation_id" -> [m EXCEPT !.conversation_id = val]
    [] col = "is_deleted" -> [m EXCEPT !.is_deleted = val]

UpdateMessageRows(P, target) ==
  {m \in messages :
     /\ (target = 0 \/ m.id = target)
     /\ Updatable(P, "messages", m.conversation_id, m.sender_id, target # 0)}

UpdateMessageOutcome(P, target, col, val) ==
  LET cmds == IF target # 0 THEN {"UPDATE", "SELECT"} ELSE {"UPDATE"}
      hit == UpdateMessageRows(P, target)
      new == {SetColumn(m, col, val) : m \in hit}
  IN IF Fails("messages", cmds, P) THEN "error"
     ELSE IF hit = {} THEN "norows"
     ELSE IF \E m \in new : ~Updatable(P, "messages", m.conversation_id, m.sender_id, target # 0) THEN "denied"
     ELSE IF \E m \in new : m.conversation_id \notin {r.id : r \in conversations} THEN "invalid"
     ELSE "ok"

MessagesAfterUpdate(P, target, col, val) ==
  IF UpdateMessageOutcome(P, target, col, val) = "ok"
  THEN (messages \ UpdateMessageRows(P, target))
         \cup {SetColumn(m, col, val) : m \in UpdateMessageRows(P, target)}
  ELSE messages

UpdateMessage(P, target, col, val) ==
  /\ messages' = MessagesAfterUpdate(P, target, col, val)
  /\ UNCHANGED <<applied, profiles, conversations, participants, clock>>

\* the values an UPDATE of messages may set
MessageChanges ==
  {<<"conversation_id", c>> : c \in ConvIds} \cup {<<"is_deleted", TRUE>>}


\* ------------------------------------------------------------- the client
\* message text, as its characters
Hi == <<"h", "i">>

Blank == <<" ">>

\* String.prototype.trim
RECURSIVE trimStart(_)
trimStart(s) == IF s # <<>> /\ Head(s) = " " THEN trimStart(Tail(s)) ELSE s

RECURSIVE trimEnd(_)
trimEnd(s) == IF s # <<>> /\ s[Len(s)] = " " THEN trimEnd(SubSeq(s, 1, Len(s) - 1)) ELSE s

trim(s) == trimEnd(trimStart(s))

\* ConversationsList.fetchConversations: the conversations the caller may
\* read that have a participant row it may read (the !inner embed), newest
\* updated_at first; on an error the list is left as it was
ConversationsFetched(u) ==
  {c \in conversations :
     /\ CanRead(u, "conversations", c.id, c.created_by)
     /\ \E r \in participants :
          /\ r.conversation_id = c.id
          /\ CanRead(u, "conversation_participants", r.conversation_id, r.user_id)}

RECURSIVE OrderByUpdatedAtDesc(_)
OrderByUpdatedAtDesc(S) ==
  IF S = {} THEN <<>>
  ELSE LET top == CHOOSE c \in S : \A d \in S : d.updated_at <= c.updated_at
       IN <<top.id>> \o OrderByUpdatedAtDesc(S \ {top})

fetchConversations(u) ==
  /\ list' = IF \/ ReadFails(u, "conversations")
                \/ ReadFails(u, "conversation_participants")
                \/ ReadFails(u, "profiles")
             THEN list
             ELSE [list EXCEPT ![u] = [loading |-> FALSE,
                                       conversations |-> OrderByUpdatedAtDesc(ConversationsFetched(u))]]
  /\ UNCHANGED <<database, selected, dlg, inp, view>>

\* onSelectConversation: a click on a row of the rendered list
onSelectConversation(u, i) ==
  /\ ~list[u].loading
  /\ i \in 1..Len(list[u].conversations)
  /\ selected' = [selected EXCEPT ![u] = list[u].conversations[i]]
  /\ UNCHANGED <<database, list, dlg, inp, view>>

\* ChatInterface.handleNewConversation: the button of the loaded list, or of
\* the empty chat area
handleNewConversation(u) ==
  /\ ~list[u].loading \/ selected[u] = NoConversation
  /\ dlg' = [dlg EXCEPT ![u].open = TRUE]
  /\ UNCHANGED <<database, selected, list, inp, view>>

\* the de-duplication lookup of createConversation: the participant rows of
\* the two users the caller may read, counted per conversation
existingConv(u, other) ==
  IF ReadFails(u, "conversation_participants") THEN {}
  ELSE {r \in participants :
          /\ r.user_id \in {u, other}
          /\ CanRead(u, "conversation_participants", r.conversation_id, r.user_id)}

conversationCounts(u, other) ==
  [id \in {r.conversation_id : r \in existingConv(u, other)} |->
     Cardinality({r \in existingConv(u, other) : r.conversation_id = id})]

\* the ids find() may return: the rows come back in no stated order
existingConversationId(u, other) ==
  IF Cardinality(existingConv(u, other)) >= 2
  THEN {id \in DOMAIN conversationCounts(u, other) : conversationCounts(u, other)[id] = 2}
  ELSE {}

\* createConversation up to its first await
createConversation(u, otherUserId) ==
  /\ dlg[u].open
  /\ otherUserId \in SignedUp \ {u}
  /\ dlg' = IF dlg[u].creating THEN dlg
            ELSE [dlg EXCEPT ![u].creating = TRUE, ![u].pc = "lookup",
                             ![u].otherUserId = otherUserId,
                             ![u].conversation = NoConversation]
  /\ UNCHANGED <<database, selected, list, inp, view>>

\* (a catch block after which creating stays set)
createConversationFailedHeld(u) ==
  [dlg EXCEPT ![u].toast = "Failed to create conversation", ![u].pc = "idle"]

\* the catch block and the setCreating(false) after it
createConversationFailed(u) ==
  [dlg EXCEPT ![u].toast = "Failed to create conversation",
              ![u].creating = FALSE, ![u].pc = "idle"]

\* createConversation from one await to the next, or to its end
createConversationResume(u) ==
  LET d == dlg[u]
      ids == existingConversationId(u, d.otherUserId)
      rows == <<ParticipantRow(d.conversation, u), ParticipantRow(d.conversation, d.otherUserId)>>
  IN
  /\ d.pc # "idle"
  /\ CASE d.pc = "lookup" ->
            /\ IF ids # {}
               THEN /\ \E found \in ids : selected' = [selected EXCEPT ![u] = found]
                    /\ dlg' = [dlg EXCEPT ![u].open = FALSE, ![u].creating = FALSE,
                                          ![u].pc = "idle"]
               ELSE /\ selected' = selected
                    /\ dlg' = [dlg EXCEPT ![u].pc = "insert"]
            /\ UNCHANGED <<database, list, inp, view>>
       [] d.pc = "insert" ->
            /\ Cardinality(conversations) < MaxConvs
            /\ clock < MaxClock
            /\ conversations' = ConversationsAfterInsert(u, u, "dm", TRUE)
            /\ IF InsertConversationOutcome(u, u, TRUE) = "ok"
               THEN /\ clock' = now
                    /\ dlg' = [dlg EXCEPT ![u].conversation = FreshConv,
                                          ![u].pc = "participants"]
               ELSE /\ clock' = clock
                    /\ dlg' = createConversationFailed(u)
            /\ UNCHANGED <<applied, profiles, participants, messages, selected, list, inp, view>>
       [] d.pc = "participants" ->
            /\ participants' = ParticipantsAfterInsert(u, rows)
            /\ IF InsertParticipantsOutcome(u, rows) = "ok"
               THEN /\ selected' = [selected EXCEPT ![u] = d.conversation]
                    /\ dlg' = [dlg EXCEPT ![u].open = FALSE,
                                          ![u].toast = "Conversation created",
                                          ![u].creating = FALSE, ![u].pc = "idle"]
               ELSE /\ selected' = selected
                    /\ dlg' = createConversationFailed(u)
            /\ UNCHANGED <<applied, profiles, conversations, messages, clock, list, inp, view>>

\* the input's onChange; the input is disabled while a send is under way
setMessage(u, text) ==
  /\ selected[u] # NoConversation
  /\ ~inp[u].sending
  /\ inp' = [inp EXCEPT ![u].message = text]
  /\ UNCHANGED <<database, selected, list, dlg, view>>

\* sendMessage up to its first await
sendMessage(u) ==
  /\ selected[u] # NoConversation
  /\ inp' = IF trim(inp[u].message) = <<>> \/ inp[u].sending THEN inp
            ELSE [inp EXCEPT ![u].sending = TRUE, ![u].pc = "insert",
                             ![u].conversationId = selected[u]]
  /\ UNCHANGED <<database, selected, list, dlg, view>>

\* sendMessage after the insert of the message has answered
sendMessageInserted(u) ==
  /\ inp[u].pc = "insert"
  /\ Cardinality(messages) < MaxMsgs
  /\ clock < MaxClock
  /\ messages' = MessagesAfterInsert(u, inp[u].conversationId, u, trim(inp[u].message))
  /\ IF InsertMessageOutcome(u, inp[u].conversationId, u) = "ok"
     THEN /\ clock' = now
          /\ inp' = [inp EXCEPT ![u].message = <<>>, ![u].pc = "update"]
     ELSE /\ clock' = clock
          /\ inp' = [inp EXCEPT ![u].toast = "Failed to send message",
                                ![u].sending = FALSE, ![u].pc = "idle"]
  /\ UNCHANGED <<applied, profiles, conversations, participants, selected, list, dlg, view>>

\* sendMessage after the update of the conversation has answered
sendMessageUpdated(u) ==
  /\ inp[u].pc = "update"
  /\ clock < MaxClock
  /\ conversations' = ConversationsAfterUpdate(u, inp[u].conversationId)
  /\ clock' = IF UpdateConversationOutcome(u, inp[u].conversationId) = "ok" THEN now ELSE clock
  /\ inp' = [inp EXCEPT ![u].sending = FALSE, ![u].pc = "idle"]
  /\ UNCHANGED <<applied, profiles, participants, messages, selected, list, dlg, view>>

\* ------------------------------------------------------- the message list
\* MessagesList.fetchMessages: the rows of the conversation that are not
\* soft-deleted and that the caller may read, oldest created_at first
MessagesFetched(u, c) ==
  {m \in messages :
     /\ m.conversation_id = c
     /\ ~m.is_deleted
     /\ CanRead(u, "messages", m.conversation_id, m.sender_id)}

RECURSIVE OrderByCreatedAtAsc(_)
OrderByCreatedAtAsc(S) ==
  IF S = {} THEN <<>>
  ELSE LET first == CHOOSE m \in S : \A n \in S : m.created_at <= n.created_at
       IN <<first.id>> \o OrderByCreatedAtAsc(S \ {first})

\* a request the list has sent and not yet had the answer of
FetchMessagesCall(c) == [call |-> "fetchMessages", conversationId |-> c, id |-> 0]

NewMessageCall(id) == [call |-> "newMessage", conversationId |-> NoConversation, id |-> id]

\* the effect of MessagesList for a changed conversationId: the clean-up of
\* the previous run removes its channel, then fetchMessages is called and a
\* channel for the new conversation is subscribed; the list and the
\* requests in flight stay
useEffectConversationId(u) ==
  /\ selected[u] # channel[u].conversationId
  /\ pending' = [pending EXCEPT ![u] = @ \cup {FetchMessagesCall(selected[u])}]
  /\ channel' = [channel EXCEPT ![u] = [conversationId |-> selected[u], events |-> <<>>]]
  /\ UNCHANGED <<database, client, shown>>

\* the answer of a fetchMessages call, of whichever run of the effect
fetchMessagesAnswered(u, c) ==
  /\ FetchMessagesCall(c) \in pending[u]
  /\ pending' = [pending EXCEPT ![u] = @ \ {FetchMessagesCall(c)}]
  /\ shown' = IF ReadFails(u, "messages") \/ ReadFails(u, "profiles") THEN shown
              ELSE [shown EXCEPT ![u] = [messages |-> OrderByCreatedAtAsc(MessagesFetched(u, c)),
                                         loading |-> FALSE]]
  /\ UNCHANGED <<database, client, channel>>

\* the row the INSERT handler is answered: .eq('id', ...).single()
newMessage(u, id) ==
  IF ReadFails(u, "messages") \/ ReadFails(u, "profiles") THEN {}
  ELSE {m \in messages : m.id = id /\ CanRead(u, "messages", m.conversation_id, m.sender_id)}

\* the INSERT handler after its fetch has answered
insertHandlerAnswered(u, id) ==
  /\ NewMessageCall(id) \in pending[u]
  /\ Len(shown[u].messages) < MaxShown
  /\ pending' = [pending EXCEPT ![u] = @ \ {NewMessageCall(id)}]
  /\ shown' = IF newMessage(u, id) = {} THEN shown
              ELSE [shown EXCEPT ![u].messages = Append(@, id)]
  /\ UNCHANGED <<database, client, channel>>

\* the channel hands its next event to its handler: the INSERT handler
\* starts its fetch, the UPDATE handler calls fetchMessages
postgres_changes(u) ==
  LET e == Head(channel[u].events)
  IN /\ channel[u].events # <<>>
     /\ channel' = [channel EXCEPT ![u].events = Tail(@)]
     /\ pending' = [pending EXCEPT ![u] = @ \cup
                      {IF e.event = "INSERT" THEN NewMessageCall(e.id)
                       ELSE FetchMessagesCall(channel[u].conversationId)}]
     /\ UNCHANGED <<database, client, shown>>

\* a committed change of a message row reaches every channel whose filter
\* conversation_id=eq.<id> it passes and whose subscriber may read the row
Published(event, id, c, sender) ==
  [u \in Pair |->
     IF /\ channel[u].conversationId = c
        /\ CanRead(u, "messages", c, sender)
     THEN [channel[u] EXCEPT !.events = Append(@, [event |-> event, id |-> id])]
     ELSE channel[u]]

\* a participant posts a message through the API
PostMessage(P, c) ==
  /\ Cardinality(messages) < MaxPosted
  /\ InsertMessageStmt(P, c, P, Hi)
  /\ channel' = IF InsertMessageOutcome(P, c, P) = "ok"
                THEN Published("INSERT", FreshMsg, c, P) ELSE channel
  /\ UNCHANGED <<client, shown, pending>>

\* the sender of a message soft-deletes it through the API
SoftDelete(id) ==
  \E m \in messages :
    /\ m.id = id
    /\ ~m.is_deleted
    /\ UpdateMessage(m.sender_id, m.id, "is_deleted", TRUE)
    /\ channel' = IF UpdateMessageOutcome(m.sender_id, m.id, "is_deleted", TRUE) = "ok"
                  THEN Published("UPDATE", m.id, m.conversation_id, m.sender_id) ELSE channel
    /\ UNCHANGED <<client, shown, pending>>

\* Every caller, signed in or not, may send the store any statement.
Next ==
  \/ ApplyMigration /\ UNCHANGED browser
  \/ \E P \in Callers, id \in Users : InsertProfile(P, id, <<"zed">>) /\ UNCHANGED browser
  \/ \E P \in Callers : UpdateProfile(P, "A", "away") /\ UNCHANGED browser
  \/ \E P \in Callers, creator \in Users \cup {NULL} :
       InsertConversation(P, creator, "dm") /\ UNCHANGED browser
  \/ \E P \in Callers, c \in ConvIds : UpdateConversation(P, c) /\ UNCHANGED browser
  \/ \E P \in Callers, c \in ConvIds, u \in Users :
       InsertParticipant(P, c, u) /\ UNCHANGED browser
  \/ \E P \in Callers, c \in ConvIds, sender \in Users :
       InsertMessage(P, c, sender, Hi) /\ UNCHANGED browser
  \/ \E P \in Callers, target \in 0..MaxMsgs, ch \in MessageChanges :
       UpdateMessage(P, target, ch[1], ch[2]) /\ UNCHANGED browser

Spec == Init /\ [][Next]_vars

\* The new-conversation dialog of the chat page, open in the browser of a
\* client; conversations and participant rows are also made by signed-in
\* users through the API.
NextDialog ==
  \/ ApplyMigration /\ UNCHANGED browser
  \/ \E P \in Users : InsertConversation(P, P, "dm") /\ UNCHANGED browser
  \/ \E P \in Users, c \in ConvIds, u \in Users : InsertParticipant(P, c, u) /\ UNCHANGED browser
  \/ \E u \in Clients : fetchConversations(u)
  \/ \E u \in Clients : handleNewConversation(u)
  \/ \E u \in Clients, other \in Users : createConversation(u, other)
  \/ \E u \in Clients : createConversationResume(u)

SpecDialog == Init /\ [][NextDialog]_vars

\* The conversation list and the message input of the chat page.
NextInput ==
  \/ ApplyMigration /\ UNCHANGED browser
  \/ \E P \in Users : InsertConversation(P, P, "dm") /\ UNCHANGED browser
  \/ \E P \in Users, c \in ConvIds, u \in Users : InsertParticipant(P, c, u) /\ UNCHANGED browser
  \/ \E u \in Clients : fetchConversations(u)
  \/ \E u \in Clients, i \in 1..MaxConvs : onSelectConversation(u, i)
  \/ \E u \in Clients, text \in {Hi, Blank} : setMessage(u, text)
  \/ \E u \in Clients : sendMessage(u)
  \/ \E u \in Clients : sendMessageInserted(u)
  \/ \E u \in Clients : sendMessageUpdated(u)

SpecInput == Init /\ [][NextInput]_vars

\* The message list of the chat page: its user sets conversations up with
\* one other user, and the two post and soft-delete messages through the API.
NextList ==
  \/ ApplyMigration /\ UNCHANGED browser
  \/ \E P \in Clients : InsertConversation(P, P, "dm") /\ UNCHANGED browser
  \/ \E P \in Clients, c \in ConvIds, u \in Pair : InsertParticipant(P, c, u) /\ UNCHANGED browser
  \/ \E P \in Pair, c \in ConvIds : PostMessage(P, c)
  \/ \E id \in MsgIds : SoftDelete(id)
  \/ \E u \in Clients : fetchConversations(u)
  \/ \E u \in Clients, i \in 1..MaxConvs : onSelectConversation(u, i)
  \/ \E u \in Clients : useEffectConversationId(u)
  \/ \E u \in Clients, c \in ConvIds : fetchMessagesAnswered(u, c)
  \/ \E u \in Clients, id \in MsgIds : insertHandlerAnswered(u, id)
  \/ \E u \in Clients : postgres_changes(u)

SpecList == Init /\ [][NextList]_vars

\* Two users have the new-conversation dialog open, each for the other.
NextRace ==
  \/ ApplyMigration /\ UNCHANGED browser
  \/ \E u \in Pair : handleNewConversation(u)
  \/ \E u \in Pair, other \in Pair : createConversation(u, other)
  \/ \E u \in Pair : createConversationResume(u)

SpecRace == Init /\ [][NextRace]_vars

\* The dialog and the message input of one client, whose store calls all
\* return. The bounds are kept away from the runs under way: a run starts
\* only where its inserts still have room, and the API leaves room.
NextGuards ==
  \/ ApplyMigration /\ UNCHANGED browser
  \/ \E P \in Clients :
       /\ Cardinality(conversations) < MaxConvs - 1
       /\ InsertConversation(P, P, "dm") /\ UNCHANGED browser
  \/ \E P \in Clients, c \in ConvIds, u \in Pair : InsertParticipant(P, c, u) /\ UNCHANGED browser
  \/ \E u \in Clients : fetchConversations(u)
  \/ \E u \in Clients, i \in 1..MaxConvs : onSelectConversation(u, i)
  \/ \E u \in Clients : handleNewConversation(u)
  \/ \E u \in Clients, other \in Pair : createConversation(u, other)
  \/ \E u \in Clients : createConversationResume(u)
  \/ \E u \in Clients, text \in {Hi, Blank} : setMessage(u, text)
  \/ \E u \in Clients : Cardinality(messages) < MaxMsgs /\ sendMessage(u)
  \/ \E u \in Clients : sendMessageInserted(u)
  \/ \E u \in Clients : sendMessageUpdated(u)

\* every store call returns
Returns ==
  \A u \in Clients :
    /\ WF_vars(createConversationResume(u))
    /\ WF_vars(sendMessageInserted(u))
    /\ WF_vars(sendMessageUpdated(u))

SpecGuards == Init /\ [][NextGuards]_vars /\ Returns

\* Principals sign up and set their status.
NextSignUp ==
  \/ ApplyMigration /\ UNCHANGED browser
  \/ \E u \in Users, k \in 1..Len(Metas) : on_auth_user_created(u, Metas[k]) /\ UNCHANGED browser
  \/ \E P \in Callers, id \in Users : UpdateProfile(P, id, "away") /\ UNCHANGED browser

SpecSignUp == InitSignUp /\ [][NextSignUp]_vars

\* ----------------------------------------------------------------- claims
\* every migration has run: the policies the repository ends with
Final == applied = NumMigrations

\* a conversation_participants row (c, P) exists
IsParticipant(P, c) == ParticipantRow(c, P) \in participants

ProtectedTables == {"conversations", "conversation_participants", "messages"}

\* C1: with all migrations applied, a principal is returned a conversation,
\* participant or message row exactly when it has a participant row for the
\* row's conversation, and anyone is returned every profile row.
C1_ReadIffParticipant ==
  Final =>
    /\ \A P \in Users :
         /\ \A r \in conversations :
              CanRead(P, "conversations", r.id, r.created_by) <=> IsParticipant(P, r.id)
         /\ \A r \in participants :
              CanRead(P, "conversation_participants", r.conversation_id, r.user_id)
                <=> IsParticipant(P, r.conversation_id)
         /\ \A r \in messages :
              CanRead(P, "messages", r.conversation_id, r.sender_id)
                <=> IsParticipant(P, r.conversation_id)
    /\ \A P \in Principals : \A r \in profiles : CanRead(P, "profiles", 0, r.id)

\* C2: with all migrations applied, expanding the read policy of
\* conversations, participants or messages never comes back to a relation
\* whose policy is being expanded, and the participant read policy finds
\* the membership through a privileged lookup.
C2_NonRecursive ==
  Final =>
    /\ \A t \in ProtectedTables : \A role \in Roles : ~Recursion(applied, t, {"SELECT"}, role, {})
    /\ \A role \in Roles :
         \A p \in PoliciesFor(applied, "conversation_participants", "SELECT", role) : p.via # "rls"

\* C3: with all migrations applied, principal P may insert a message with
\* sender s into conversation c exactly when s = P and P is a participant
\* of c.
C3_MessageInsertIff ==
  Final =>
    \A P \in Users : \A c \in ConvIds : \A sender \in Users :
      (InsertMessageOutcome(P, c, sender) = "ok") <=> (sender = P /\ IsParticipant(P, c))

\* C4: a principal that is neither a participant nor the creator of a
\* conversation is refused when it inserts a participant row for itself.
C4_NoSelfJoin ==
  \A P \in Users : \A c \in conversations :
    (~IsParticipant(P, c.id) /\ c.created_by # P)
      => InsertParticipantsOutcome(P, <<ParticipantRow(c.id, P)>>) # "ok"

\* C5: with all migrations applied, principal P may insert the participant
\* row (c, u), not yet present, exactly when u = P or P created c; the
\* creator need not be a participant.
C5_ParticipantInsertIff ==
  Final =>
    \A P \in Users : \A c \in conversations : \A u \in Users :
      ~IsParticipant(u, c.id) =>
        ((InsertParticipantsOutcome(P, <<ParticipantRow(c.id, u)>>) = "ok")
           <=> (u = P \/ c.created_by = P))

\* C6: whatever the store holds and whichever migrations have run, every
\* insert or update an unauthenticated caller sends is refused and leaves
\* the four tables as they were.
C6_AnonWritesDenied ==
  /\ \A id \in Users :
       /\ InsertProfileOutcome(Anon, id, <<"zed">>) # "ok"
       /\ ProfilesAfterInsert(Anon, id, <<"zed">>) = profiles
       /\ UpdateProfileOutcome(Anon, id) # "ok"
       /\ ProfilesAfterUpdate(Anon, id, "away") = profiles
  /\ \A creator \in Users \cup {NULL} : \A returning \in BOOLEAN :
       Cardinality(conversations) < MaxConvs =>
         /\ InsertConversationOutcome(Anon, creator, returning) # "ok"
         /\ ConversationsAfterInsert(Anon, creator, "dm", returning) = conversations
  /\ \A c \in ConvIds :
       /\ UpdateConversationOutcome(Anon, c) # "ok"
       /\ ConversationsAfterUpdate(Anon, c) = conversations
       /\ \A u \in Users :
            /\ InsertParticipantsOutcome(Anon, <<ParticipantRow(c, u)>>) # "ok"
            /\ ParticipantsAfterInsert(Anon, <<ParticipantRow(c, u)>>) = participants
            /\ Cardinality(messages) < MaxMsgs =>
                 /\ InsertMessageOutcome(Anon, c, u) # "ok"
                 /\ MessagesAfterInsert(Anon, c, u, Hi) = messages
  /\ \A target \in 0..MaxMsgs : \A ch \in MessageChanges :
       /\ UpdateMessageOutcome(Anon, target, ch[1], ch[2]) # "ok"
       /\ MessagesAfterUpdate(Anon, target, ch[1], ch[2]) = messages

\* C6 witness: all migrations have run, a conversation with a participant
\* and a message exists, and the store refuses the unauthenticated insert of
\* a conversation, of a participant and of a message, and matches no row for
\* the unauthenticated soft-delete of that message.
C6_Witness ==
  /\ Final
  /\ Cardinality(conversations) < MaxConvs
  /\ InsertConversationOutcome(Anon, NULL, FALSE) = "denied"
  /\ \E m \in messages :
       /\ IsParticipant(m.sender_id, m.conversation_id)
       /\ InsertParticipantsOutcome(Anon, <<ParticipantRow(m.conversation_id, "X")>>) = "denied"
       /\ UpdateMessageOutcome(Anon, m.id, "is_deleted", TRUE) = "norows"
       /\ UpdateConversationOutcome(Anon, m.conversation_id) = "norows"

\* the users with a participant row of conversation c
ParticipantsOf(c) == {r.user_id : r \in {p \in participants : p.conversation_id = c}}

\* C7: with all migrations applied, the step that ends a createConversation
\* of client A for a user B it shares no conversation with leaves a dm
\* conversation created by A whose participants are exactly A and B, and
\* that conversation is the one handed to onConversationCreated.
C7_CreateRoundTrip ==
  [][\A u \in Clients :
       (/\ Final
        /\ dlg[u].pc # "idle" /\ dlg'[u].pc = "idle"
        /\ ~\E c \in ConvIds : {u, dlg[u].otherUserId} \subseteq ParticipantsOf(c))
       => \E c \in conversations' :
            /\ c.type = "dm" /\ c.created_by = u
            /\ ParticipantsOf(c.id)' = {u, dlg[u].otherUserId}
            /\ selected'[u] = c.id]_vars

\* C8: the step in which the de-duplication lookup of client A for user B
\* finds an existing conversation hands on a conversation whose
\* participants are exactly A and B.
C8_LookupExact ==
  [][\A u \in Clients :
       (dlg[u].pc = "lookup" /\ dlg'[u].pc = "idle")
       => ParticipantsOf(selected'[u]) = {u, dlg[u].otherUserId}]_vars

\* C9: the step that ends a sendMessage whose insert succeeded leaves the
\* conversation with an updated_at that differs from, and is not older than,
\* the one it had.
C9_UpdatedAtBumped ==
  [][\A u \in Clients :
       (inp[u].pc = "update" /\ inp'[u].pc = "idle")
       => \A c \in conversations : c.id = inp[u].conversationId =>
            \E d \in conversations' :
              d.id = c.id /\ d.updated_at # c.updated_at /\ d.updated_at >= c.updated_at]_vars

\* C10: with all migrations applied, the sender of every message is a
\* participant of the conversation the message is in.
C10_SenderIsParticipant ==
  Final => \A m \in messages : IsParticipant(m.sender_id, m.conversation_id)

\* C11: when the sender of a message sends the soft-delete update, with a
\* filter on the id or with none, no row is removed, every row keeps all
\* its fields but is_deleted, an accepted update leaves the message with
\* is_deleted = TRUE, and a message that is already soft-deleted stays
\* exactly as it was.
C11_SoftDeleteIdempotent ==
  \A m \in messages : \A target \in {0, m.id} :
    LET after == MessagesAfterUpdate(m.sender_id, target, "is_deleted", TRUE)
    IN /\ {x.id : x \in after} = {x.id : x \in messages}
       /\ \A x \in after : \E y \in messages : x = [y EXCEPT !.is_deleted = x.is_deleted]
       /\ UpdateMessageOutcome(m.sender_id, target, "is_deleted", TRUE) = "ok"
            => \E x \in after : x.id = m.id /\ x.is_deleted
       /\ m.is_deleted => m \in after

\* C11 witness: a soft-deleted message whose sender is a participant of its
\* conversation, and the store accepts the sender's second soft-delete.
C11_Witness ==
  \E m \in messages :
    /\ m.is_deleted
    /\ IsParticipant(m.sender_id, m.conversation_id)
    /\ UpdateMessageOutcome(m.sender_id, m.id, "is_deleted", TRUE) = "ok"

\* the stored row of a listed message
Row(id) == CHOOSE m \in messages : m.id = id

\* the policies in force let participants read and post (raspy_spark), so
\* that no fetch of the list has ever been answered an error
Readable == applied = 2

\* the list has nothing left to process: no request in flight, no event
\* undelivered, and its effect has run for the selected conversation
Settled(u) ==
  /\ pending[u] = {}
  /\ channel[u].events = <<>>
  /\ channel[u].conversationId = selected[u]

\* C12: once the list has processed every change event and every fetch has
\* answered without error, it holds no message whose row has
\* is_deleted = TRUE.
C12_NoDeletedListed ==
  \A u \in Clients :
    Readable /\ Settled(u) =>
      \A i \in 1..Len(shown[u].messages) : ~Row(shown[u].messages[i]).is_deleted

\* no id twice in a list
Distinct(ids) == \A i, j \in 1..Len(ids) : i # j => ids[i] # ids[j]

\* C13: the list is ordered by created_at ascending, whatever the order in
\* which the fetches of the INSERT handler complete (stated for the lists
\* that hold no message twice and no soft-deleted message).
C13_OrderedByCreatedAt ==
  \A u \in Clients :
    \A i, j \in 1..Len(shown[u].messages) :
      /\ Distinct(shown[u].messages)
      /\ \A k \in 1..Len(shown[u].messages) : ~Row(shown[u].messages[k]).is_deleted
      /\ i < j
      => Row(shown[u].messages[i]).created_at <= Row(shown[u].messages[j]).created_at

\* C17: the list never holds the same message id twice, under every
\* interleaving of the initial fetch, the re-fetches and the INSERT events.
C17_NoDuplicateIds == \A u \in Clients : Distinct(shown[u].messages)

\* C18: after the selected conversation has changed and every fetch in
\* flight has answered without error, every listed message belongs to the
\* conversation now selected.
C18_ListedOfSelected ==
  \A u \in Clients :
    Readable /\ Settled(u) /\ selected[u] # NoConversation =>
      \A i \in 1..Len(shown[u].messages) :
        Row(shown[u].messages[i]).conversation_id = selected[u]

\* the part of an e-mail address before its '@'
LocalPart(u) ==
  LET e == Email(u)
      at == CHOOSE i \in 1..Len(e) : e[i] = "@" /\ \A j \in 1..(i - 1) : e[j] # "@"
  IN SubSeq(e, 1, at - 1)

\* C14: a new principal gets exactly one profile, with its id, with the
\* requested username or else the local part of its e-mail address, and
\* display_name defaulted the same way; when a profile has that username
\* already the sign-up fails with a conflict and adds no profile.
C14_Provisioning ==
  \A u \in Users \ SignedUp : \A k \in 1..Len(Metas) :
    LET meta == Metas[k]
        username == IF meta.username # NULL THEN meta.username ELSE LocalPart(u)
        display_name == IF meta.display_name # NULL THEN meta.display_name ELSE LocalPart(u)
        after == ProfilesAfterSignUp(u, meta)
    IN IF \E p \in profiles : p.username = username
       THEN SignUpOutcome(u, meta) = "conflict" /\ after = profiles
       ELSE /\ SignUpOutcome(u, meta) = "ok"
            /\ profiles \subseteq after
            /\ Cardinality(after \ profiles) = 1
            /\ \A p \in after \ profiles :
                 p.id = u /\ p.username = username /\ p.display_name = display_name
            /\ Cardinality({p \in after : p.id = u}) = 1

\* alice@example.com has signed up without a requested username, and the
\* sign-up of alice@other.org conflicts while one with a requested username
\* would pass
C14_Witness ==
  /\ \E p \in profiles : p.id = "A" /\ p.username = <<"alice">> /\ p.display_name = <<"alice">>
  /\ "X" \notin SignedUp
  /\ SignUpOutcome("X", [username |-> NULL, display_name |-> NULL]) = "conflict"
  /\ SignUpOutcome("X", [username |-> <<"xavier">>, display_name |-> NULL]) = "ok"

\* both runs of createConversation, of A for B and of B for A, have made
\* their de-duplication lookup, found nothing, and inserted nothing yet
Race ==
  /\ dlg["A"].pc = "insert" /\ dlg["A"].otherUserId = "B"
  /\ dlg["B"].pc = "insert" /\ dlg["B"].otherUserId = "A"

\* C15: with all migrations applied, when two runs of createConversation
\* for the same pair interleave, the store rejects neither conversation
\* insert: the step of each run after its lookup creates a dm conversation.
C15_RaceBothCreate ==
  [][\A u \in Pair :
       (Final /\ Race /\ dlg'[u].pc # "insert")
       => \E c \in conversations' \ conversations : c.type = "dm" /\ c.created_by = u]_vars

\* C16: with all migrations applied, the conversation insert of
\* createConversation is not undone: the step after the lookup leaves a conversation created by the caller that
\* has no participant row yet, and nothing has been handed to
\* onConversationCreated for it.
C16_NotAtomic ==
  [][\A u \in Clients :
       (Final /\ dlg[u].pc = "insert" /\ dlg'[u].pc # "insert")
       => \E c \in conversations' \ conversations :
            /\ c.created_by = u
            /\ Cardinality(ParticipantsOf(c.id)') <= 1
            /\ selected'[u] # c.id]_vars

\* the store calls a run still has to make at most
Awaits(pc) ==
  CASE pc = "lookup" -> 3
    [] pc = "insert" -> 2
    [] pc = "participants" -> 1
    [] pc = "update" -> 1
    [] OTHER -> 0

\* C19: provided the store calls return, every run of createConversation
\* and of sendMessage sets its flag back to false; while the flag is set the
\* run only moves on towards its end, so that no second insert is issued;
\* and the content sendMessage inserts is not empty after trimming.
C19_GuardsReleased ==
  /\ \A u \in Clients : dlg[u].creating ~> ~dlg[u].creating
  /\ \A u \in Clients : inp[u].sending ~> ~inp[u].sending
  /\ [][\A u \in Clients :
          /\ dlg[u].creating /\ dlg'[u] # dlg[u] => Awaits(dlg'[u].pc) < Awaits(dlg[u].pc)
          /\ inp[u].sending /\ inp'[u] # inp[u] => Awaits(inp'[u].pc) < Awaits(inp[u].pc)
          /\ ~inp[u].sending /\ ~inp'[u].sending => messages' = messages
          /\ \A m \in messages' \ messages : trim(m.content) # <<>>]_vars

\* a run of createConversation has ended in its catch block with the flag
\* back to false, while a run of sendMessage has its flag set, its message
\* inserted and its last store call under way
C19_Witness ==
  /\ dlg["A"].toast = "Failed to create conversation" /\ ~dlg["A"].creating
  /\ inp["A"].sending /\ inp["A"].pc = "update"
  /\ \E m \in messages : m.sender_id = "A" /\ m.content = Hi

====
